---- MODULE Spec2Model ----
(***************************************************************************)
(* Model of src/filter_strings_starting_with_e.py: the predicate-based     *)
(* string filter (class StringFilter), its named predicates and its        *)
(* predicate combinators.                                                  *)
(*                                                                         *)
(* A Python str is a tuple of one-character strings, <<"E","b">> is "Eb".  *)
(* A Python list is a tuple of elements; list objects live in `heap` and   *)
(* are named by their index, so aliasing and mutation are observable.      *)
(* A predicate is a tagged tuple; Call(p, s) is the outcome of p(s):       *)
(* "True", "False", or the name of the exception it raises.                *)
(***************************************************************************)
EXTENDS Integers, Sequences, FiniteSets, TLC

\* Longest input list that is enumerated.
MaxLen == 2

\* ------------------------------------------------------------------------
\* Values
\* ------------------------------------------------------------------------

\* Python's None as a list element: a value that is no string over the alphabet.
None == <<"None">>

\* An omitted optional argument (its default applies) and a supplied one.
Omitted == <<>>

Some(v) == <<v>>

\* The strings the inputs are drawn from: "", "e", "E", "eb", "Eb", "bE", "eE", "ebe".
StrPool ==
    { <<>>, <<"e">>, <<"E">>, <<"e", "b">>, <<"E", "b">>, <<"b", "E">>,
      <<"e", "E">>, <<"e", "b", "e">> }

\* Elements of an input list: a string or None.
Elems == StrPool \cup {None}

RECURSIVE ListsUpTo(_)
ListsUpTo(n) ==
    IF n = 0 THEN {<<>>}
    ELSE LET shorter == ListsUpTo(n - 1)
         IN  shorter \cup {Append(l, x) : l \in {m \in shorter : Len(m) = n - 1}, x \in Elems}

\* ------------------------------------------------------------------------
\* Python primitives used by the source
\* ------------------------------------------------------------------------

\* str.upper() of one character of the alphabet {e, E, b} (and of B).
UpperChar(c) ==
    CASE c = "e" -> "E"
      [] c = "b" -> "B"
      [] OTHER -> c

\* s.upper()
Upper(s) == [k \in 1..Len(s) |-> UpperChar(s[k])]

\* char.isupper()
IsUpperChar(c) == c \in {"E", "B"}

\* char.isalpha()
IsAlphaChar(c) == c \in {"e", "E", "b", "B"}

\* `sub in s` for strings: sub occurs in s as a contiguous run.
StrIn(sub, s) ==
    \E k \in 0..(Len(s) - Len(sub)) : SubSeq(s, k + 1, k + Len(sub)) = sub

\* Mutant of Truthy:  if string is not None and predicate(string)
TruthyNotNone(x) == x # None

\* Truth value of a list element in `if string and ...`: None and "" are falsy.
Truthy(x) == x # None /\ x # <<>>

\* Outcome of a boolean expression.
Bool(b) == IF b THEN "True" ELSE "False"

\* ------------------------------------------------------------------------
\* Predicates: closures of the filter methods, named predicates, combinators
\* ------------------------------------------------------------------------

\* The closure starts_with_char built by filter_by_starting_character.
StartsWithChar(character, case_sensitive) ==
    <<"starts_with_char", character, case_sensitive>>

\* The closure ends_with_char built by filter_by_ending_character.
EndsWithChar(character, case_sensitive) ==
    <<"ends_with_char", character, case_sensitive>>

\* The closure length_predicate built by filter_by_length.
LengthPredicate(min_length, max_length) ==
    <<"length_predicate", min_length, max_length>>

\* The closure contains_predicate built by filter_by_contains.
ContainsPredicate(substring, case_sensitive) ==
    <<"contains_predicate", substring, case_sensitive>>

\* combine_predicates_and(pred1, pred2): builds the lambda, evaluates nothing.
combine_predicates_and(pred1, pred2) == <<"and", pred1, pred2>>

\* combine_predicates_or(pred1, pred2)
combine_predicates_or(pred1, pred2) == <<"or", pred1, pred2>>

\* negate_predicate(predicate)
negate_predicate(p) == <<"not", p>>

\* s[0] == character, or with both sides uppercased.
starts_with_char(s, character, case_sensitive) ==
    IF Len(s) = 0 THEN "IndexError"
    ELSE IF case_sensitive THEN Bool(<<s[1]>> = character)
    ELSE Bool(Upper(<<s[1]>>) = Upper(character))

\* s[-1] == character, or with both sides uppercased.
ends_with_char(s, character, case_sensitive) ==
    IF Len(s) = 0 THEN "IndexError"
    ELSE IF case_sensitive THEN Bool(<<s[Len(s)]>> = character)
    ELSE Bool(Upper(<<s[Len(s)]>>) = Upper(character))

\* Mutant of length_predicate: the minimum bound taken as exclusive.
length_predicate_strict(s, min_length, max_length) ==
    LET length == Len(s)
    IN  Bool(/\ (min_length = Omitted \/ length > min_length[1])
             /\ (max_length = Omitted \/ length <= max_length[1]))

\* Both bounds inclusive; an omitted (None) bound always holds.
length_predicate(s, min_length, max_length) ==
    LET length == Len(s)
    IN  Bool(/\ (min_length = Omitted \/ length >= min_length[1])
             /\ (max_length = Omitted \/ length <= max_length[1]))

\* Mutant of contains_predicate: the case_sensitive flag is ignored.
contains_predicate_exact(s, substring, case_sensitive) ==
    Bool(StrIn(substring, s))

\* substring in s, or with both sides uppercased.
contains_predicate(s, substring, case_sensitive) ==
    IF case_sensitive THEN Bool(StrIn(substring, s))
    ELSE Bool(StrIn(Upper(substring), Upper(s)))

starts_with_e(text) ==
    IF text # <<>> THEN Bool(Upper(<<text[1]>>) = <<"E">>) ELSE "False"

starts_with_vowel(text) ==
    IF text # <<>> THEN Bool(StrIn(Upper(<<text[1]>>), <<"A", "E", "I", "O", "U">>))
    ELSE "False"

is_longer_than_5(text) == Bool(Len(text) > 5)

is_shorter_than_4(text) == Bool(Len(text) < 4)

contains_double_letters(text) ==
    Bool(\E k \in 1..(Len(text) - 1) : UpperChar(text[k]) = UpperChar(text[k + 1]))

has_uppercase_letters(text) == Bool(\E k \in 1..Len(text) : IsUpperChar(text[k]))

is_all_alphabetic(text) == Bool(\A k \in 1..Len(text) : IsAlphaChar(text[k]))

\* main's inline predicate  lambda s: len(s) == 4
has_exactly_4_chars(s) == Bool(Len(s) = 4)

\* A caller's predicate that indexes past a one-character string:
\* lambda s: s[1] == 'b'   (IndexError when len(s) < 2).
second_char_is_b(s) ==
    IF Len(s) < 2 THEN "IndexError" ELSE Bool(s[2] = "b")

\* Mutant of PyAnd: `or` written for `and`.
PyAndAsOr(a, b) == IF a = "False" THEN b ELSE a

\* pred1(x) and pred2(x): pred2 is evaluated only when pred1(x) is true;
\* an exception of either evaluated operand propagates.
PyAnd(a, b) == IF a = "True" THEN b ELSE a

\* pred1(x) or pred2(x): pred2 is evaluated only when pred1(x) is false.
PyOr(a, b) == IF a = "False" THEN b ELSE a

\* not predicate(x)
PyNot(a) == IF a = "True" THEN "False" ELSE IF a = "False" THEN "True" ELSE a

\* p(s): the outcome of calling predicate p with the string s.
RECURSIVE Call(_, _)
Call(p, s) ==
    CASE p[1] = "starts_with_char" -> starts_with_char(s, p[2], p[3])
      [] p[1] = "ends_with_char" -> ends_with_char(s, p[2], p[3])
      [] p[1] = "length_predicate" -> length_predicate(s, p[2], p[3])
      [] p[1] = "contains_predicate" -> contains_predicate(s, p[2], p[3])
      [] p[1] = "starts_with_e" -> starts_with_e(s)
      [] p[1] = "starts_with_vowel" -> starts_with_vowel(s)
      [] p[1] = "is_longer_than_5" -> is_longer_than_5(s)
      [] p[1] = "is_shorter_than_4" -> is_shorter_than_4(s)
      [] p[1] = "contains_double_letters" -> contains_double_letters(s)
      [] p[1] = "has_uppercase_letters" -> has_uppercase_letters(s)
      [] p[1] = "is_all_alphabetic" -> is_all_alphabetic(s)
      [] p[1] = "has_exactly_4_chars" -> has_exactly_4_chars(s)
      [] p[1] = "second_char_is_b" -> second_char_is_b(s)
      [] p[1] = "and" -> PyAnd(Call(p[2], s), Call(p[3], s))
      [] p[1] = "or" -> PyOr(Call(p[2], s), Call(p[3], s))
      [] p[1] = "not" -> PyNot(Call(p[2], s))

\* The evaluations of named predicates and closures that p(s) makes, in order:
\* `and` / `or` evaluate their second operand only when the first does not decide.
RECURSIVE Trace(_, _)
Trace(p, s) ==
    CASE p[1] = "and" ->
             Trace(p[2], s) \o (IF Call(p[2], s) = "True" THEN Trace(p[3], s) ELSE <<>>)
      [] p[1] = "or" ->
             Trace(p[2], s) \o (IF Call(p[2], s) = "False" THEN Trace(p[3], s) ELSE <<>>)
      [] p[1] = "not" -> Trace(p[2], s)
      [] OTHER -> << <<p, s>> >>

\* The named predicates of the module and of main, by name.
NamedPreds ==
    { <<"starts_with_e">>, <<"starts_with_vowel">>, <<"is_longer_than_5">>,
      <<"is_shorter_than_4">>, <<"contains_double_letters">>,
      <<"has_uppercase_letters">>, <<"is_all_alphabetic">>,
      <<"has_exactly_4_chars">> }

\* main's three combined predicates.
vowel_and_long == combine_predicates_and(<<"starts_with_vowel">>, <<"is_longer_than_5">>)

e_or_short == combine_predicates_or(<<"starts_with_e">>, <<"is_shorter_than_4">>)

not_vowel == negate_predicate(<<"starts_with_vowel">>)

\* The predicates handed to filter_by_predicate: the named ones, main's
\* combinations, and caller predicates that fail on short strings.
PredPool ==
    NamedPreds \cup
    { vowel_and_long, e_or_short, not_vowel,
      <<"second_char_is_b">>,
      combine_predicates_and(<<"has_uppercase_letters">>, <<"second_char_is_b">>),
      combine_predicates_or(<<"starts_with_e">>, <<"second_char_is_b">>) }

\* ------------------------------------------------------------------------
\* Arguments the filter methods are called with
\* ------------------------------------------------------------------------

\* `character` arguments: "", "e", "E", "b", "eb", and None (not a str).
CharArgs == { <<>>, <<"e">>, <<"E">>, <<"b">>, <<"e", "b">>, None }

\* `case_sensitive` arguments: omitted, True, False.
FlagArgs == { Omitted, Some(TRUE), Some(FALSE) }

\* `min_length` / `max_length` arguments: omitted (None) or a length.
BoundArgs == { Omitted, Some(0), Some(1), Some(2), Some(3) }

\* `substring` arguments: "", "e", "b", "eb", "EB", "ee".
SubstringArgs ==
    { <<>>, <<"e">>, <<"b">>, <<"e", "b">>, <<"E", "B">>, <<"e", "e">> }

\* ------------------------------------------------------------------------
\* State
\* ------------------------------------------------------------------------

VARIABLES
    heap,         \* the list objects: heap[r] is the content of list r
    string_list,  \* the list passed to the current call (a reference)
    given,        \* what string_list held when the current call began
    op,           \* the current call: <<method name, arguments...>>
    predicate,    \* the predicate filter_by_predicate runs with
    result,       \* the local `result` of filter_by_predicate (a reference, 0: none)
    i,            \* position of the for loop in string_list
    pc,           \* "idle", "loop", "returned", "raised"
    exc,          \* the exception the call ended in, "" if none
    returned,     \* the list the call returned (a reference, 0: none)
    calls,        \* the strings the predicate was called with, in call order
    verdict,      \* outcome of the latest call of the predicate, "" if none
    evals,        \* the <<predicate, string>> evaluations made inside the predicate
    phase,        \* "first" call, or the caller's "repeat" / "refilter" call
    first         \* outcome of the first call, once a second call was made

vars ==
    <<heap, string_list, given, op, predicate, result, i, pc, exc, returned,
      calls, verdict, evals, phase, first>>

\* No predicate: the call ended before one was built.
NoPred == <<"none">>

NoOutcome == [pc |-> "idle", exc |-> "", value |-> <<>>]

\* ------------------------------------------------------------------------
\* StringFilter
\* ------------------------------------------------------------------------

\* Mutant of IsSingleCharacter: only the empty string is rejected.
IsNonEmptyCharacter(character) == character # None /\ Len(character) >= 1

\* isinstance(character, str) and len(character) == 1
IsSingleCharacter(character) == character # None /\ Len(character) = 1

\* Mutant of CaseSensitive: the default is case_sensitive=True.
CaseSensitiveByDefault(flag) == IF flag = Omitted THEN TRUE ELSE flag[1]

\* case_sensitive=False is the default of the three flagged methods.
CaseSensitive(flag) == IF flag = Omitted THEN FALSE ELSE flag[1]

\* A method ends by raising, or goes on into filter_by_predicate with a predicate.
Raise(e) == [raised |-> e, predicate |-> NoPred]

Delegate(p) == [raised |-> "", predicate |-> p]

filter_by_starting_character(character, flag) ==
    IF ~IsSingleCharacter(character) THEN Raise("ValueError")
    ELSE Delegate(StartsWithChar(character, CaseSensitive(flag)))

filter_by_ending_character(character, flag) ==
    IF ~IsSingleCharacter(character) THEN Raise("ValueError")
    ELSE Delegate(EndsWithChar(character, CaseSensitive(flag)))

filter_by_length(min_length, max_length) ==
    Delegate(LengthPredicate(min_length, max_length))

filter_by_contains(substring, flag) ==
    Delegate(ContainsPredicate(substring, CaseSensitive(flag)))

\* What a call does before the loop of filter_by_predicate.
Enter(o) ==
    CASE o[1] = "filter_by_predicate" -> Delegate(o[2])
      [] o[1] = "filter_by_starting_character" -> filter_by_starting_character(o[2], o[3])
      [] o[1] = "filter_by_ending_character" -> filter_by_ending_character(o[2], o[3])
      [] o[1] = "filter_by_length" -> filter_by_length(o[2], o[3])
      [] o[1] = "filter_by_contains" -> filter_by_contains(o[2], o[3])

\* Mutant of NewList:  result = string_list  (the result aliases the input).
NewListAliased(h) == [heap |-> h, ref |-> string_list]

\* result = []  : a new, empty list object.
NewList(h) == [heap |-> Append(h, <<>>), ref |-> Len(h) + 1]

\* Mutant of ListAppend:  result.insert(0, string)
ListInsertFront(l, x) == <<x>> \o l

\* result.append(string)
ListAppend(l, x) == Append(l, x)

\* Mutant of FirstIndex: the loop skips the first element.
FirstIndexSkipsOne == 1 + 1

\* The for loop starts at the first element.
FirstIndex == 1

\* Mutant of AfterCall: the predicate's exception is swallowed.
AfterCallSwallowed(v) == "loop"

\* The loop goes on after a verdict and ends when the predicate raises.
AfterCall(v) == IF v \in {"True", "False"} THEN "loop" ELSE "raised"

\* A call of method o on the list ref begins: argument checks, closure,
\* and the entry of filter_by_predicate up to the loop.
Begin(o, ref, ph) ==
    LET e == Enter(o)
        n == NewList(heap)
    IN  /\ op' = o
        /\ string_list' = ref
        /\ given' = heap[ref]
        /\ phase' = ph
        /\ predicate' = e.predicate
        /\ calls' = <<>>
        /\ verdict' = ""
        /\ evals' = <<>>
        /\ returned' = 0
        /\ exc' = e.raised
        /\ IF e.raised # ""
           THEN /\ pc' = "raised"
                /\ UNCHANGED <<heap, result, i>>
           ELSE /\ pc' = "loop"
                /\ heap' = n.heap
                /\ result' = n.ref
                /\ i' = FirstIndex

CallFilterByPredicate ==
    /\ pc = "idle"
    /\ \E p \in PredPool : Begin(<<"filter_by_predicate", p>>, 1, "first")
    /\ UNCHANGED first

CallFilterByStartingCharacter ==
    /\ pc = "idle"
    /\ \E c \in CharArgs, f \in FlagArgs :
           Begin(<<"filter_by_starting_character", c, f>>, 1, "first")
    /\ UNCHANGED first

CallFilterByEndingCharacter ==
    /\ pc = "idle"
    /\ \E c \in CharArgs, f \in FlagArgs :
           Begin(<<"filter_by_ending_character", c, f>>, 1, "first")
    /\ UNCHANGED first

CallFilterByLength ==
    /\ pc = "idle"
    /\ \E lo \in BoundArgs, hi \in BoundArgs :
           Begin(<<"filter_by_length", lo, hi>>, 1, "first")
    /\ UNCHANGED first

CallFilterByContains ==
    /\ pc = "idle"
    /\ \E t \in SubstringArgs, f \in FlagArgs :
           Begin(<<"filter_by_contains", t, f>>, 1, "first")
    /\ UNCHANGED first

\* One iteration of  for string in string_list: if string and predicate(string): ...
LoopStep ==
    /\ pc = "loop"
    /\ i <= Len(heap[string_list])
    /\ LET string == heap[string_list][i]
       IN  IF Truthy(string)
           THEN LET v == Call(predicate, string)
                IN  /\ calls' = Append(calls, string)
                    /\ verdict' = v
                    /\ evals' = evals \o Trace(predicate, string)
                    /\ pc' = AfterCall(v)
                    /\ exc' = IF AfterCall(v) = "raised" THEN v ELSE exc
                    /\ heap' = IF v = "True"
                               THEN [heap EXCEPT ![result] = ListAppend(@, string)]
                               ELSE heap
           ELSE UNCHANGED <<calls, verdict, evals, pc, exc, heap>>
    /\ i' = i + 1
    /\ UNCHANGED <<string_list, given, op, predicate, result, returned, phase, first>>

\* return result
Return ==
    /\ pc = "loop"
    /\ i > Len(heap[string_list])
    /\ pc' = "returned"
    /\ returned' = result
    /\ UNCHANGED <<heap, string_list, given, op, predicate, result, i, exc, calls,
                   verdict, evals, phase, first>>

\* The outcome of the call that just ended.
Outcome ==
    [pc |-> pc, exc |-> exc, value |-> IF pc = "returned" THEN heap[returned] ELSE <<>>]

\* The caller makes the same call again, on the same list.
Repeat ==
    /\ pc \in {"returned", "raised"}
    /\ phase = "first"
    /\ first' = Outcome
    /\ Begin(op, string_list, "repeat")

\* The caller filters the returned list again, with the same method and arguments.
Refilter ==
    /\ pc = "returned"
    /\ phase = "first"
    /\ first' = Outcome
    /\ Begin(op, returned, "refilter")

Init ==
    /\ heap \in {<<l>> : l \in ListsUpTo(MaxLen)}
    /\ string_list = 1
    /\ given = heap[1]
    /\ op = <<"none">>
    /\ predicate = NoPred
    /\ result = 0
    /\ i = 0
    /\ pc = "idle"
    /\ exc = ""
    /\ returned = 0
    /\ calls = <<>>
    /\ verdict = ""
    /\ evals = <<>>
    /\ phase = "first"
    /\ first = NoOutcome

Next ==
    \/ CallFilterByPredicate
    \/ CallFilterByStartingCharacter
    \/ CallFilterByEndingCharacter
    \/ CallFilterByLength
    \/ CallFilterByContains
    \/ LoopStep
    \/ Return
    \/ Repeat
    \/ Refilter

Spec == Init /\ [][Next]_vars

\* ------------------------------------------------------------------------
\* The combinators on their own: build a predicate, then call it on a string
\* ------------------------------------------------------------------------

\* The predicates the combinators are given: named predicates, closures of the
\* filter methods, and a caller predicate that fails on short strings.
ArgPreds ==
    { <<"starts_with_e">>, <<"starts_with_vowel">>, <<"is_shorter_than_4">>,
      <<"contains_double_letters">>, <<"has_uppercase_letters">>,
      LengthPredicate(Some(2), Omitted),
      ContainsPredicate(<<"b">>, FALSE),
      EndsWithChar(<<"e">>, TRUE),
      <<"second_char_is_b">> }

BuildAnd ==
    /\ pc = "idle"
    /\ \E pred1 \in ArgPreds, pred2 \in ArgPreds :
           /\ op' = <<"combine_predicates_and", pred1, pred2>>
           /\ predicate' = combine_predicates_and(pred1, pred2)
    /\ pc' = "built"
    /\ UNCHANGED <<heap, string_list, given, result, i, exc, returned, calls,
                   verdict, evals, phase, first>>

BuildOr ==
    /\ pc = "idle"
    /\ \E pred1 \in ArgPreds, pred2 \in ArgPreds :
           /\ op' = <<"combine_predicates_or", pred1, pred2>>
           /\ predicate' = combine_predicates_or(pred1, pred2)
    /\ pc' = "built"
    /\ UNCHANGED <<heap, string_list, given, result, i, exc, returned, calls,
                   verdict, evals, phase, first>>

BuildNot ==
    /\ pc = "idle"
    /\ \E p \in ArgPreds :
           /\ op' = <<"negate_predicate", p>>
           /\ predicate' = negate_predicate(p)
    /\ pc' = "built"
    /\ UNCHANGED <<heap, string_list, given, result, i, exc, returned, calls,
                   verdict, evals, phase, first>>

\* The built predicate is called with a string x.
Apply ==
    /\ pc = "built"
    /\ \E x \in StrPool :
           /\ calls' = <<x>>
           /\ verdict' = Call(predicate, x)
           /\ evals' = Trace(predicate, x)
    /\ pc' = "applied"
    /\ UNCHANGED <<heap, string_list, given, op, predicate, result, i, exc,
                   returned, phase, first>>

\* No list is involved: the only list object is an empty one.
InitComb == Init /\ heap = << <<>> >>

NextComb == BuildAnd \/ BuildOr \/ BuildNot \/ Apply

SpecComb == InitComb /\ [][NextComb]_vars

\* ------------------------------------------------------------------------
\* Properties
\* ------------------------------------------------------------------------

Done == pc \in {"returned", "raised"}

IsBool(v) == v \in {"True", "False"}

\* x is a string (not None) and not the empty string.
NonEmptyString(x) == x # None /\ x # <<>>

\* The current predicate gives a verdict on every non-empty string of the input.
PredicateTotal ==
    \A k \in 1..Len(given) : NonEmptyString(given[k]) => IsBool(Call(predicate, given[k]))

\* The elements of the input that are non-empty strings satisfying the predicate.
Satisfies(x) == NonEmptyString(x) /\ Call(predicate, x) = "True"

\* C1: filter_by_predicate(S, P) with a boolean P returns exactly the non-empty,
\* non-absent elements of S that satisfy P, in their order and multiplicity in S.
C1_FilterExact ==
    (op[1] = "filter_by_predicate" /\ Done /\ PredicateTotal)
        => /\ pc = "returned"
           /\ heap[returned] = SelectSeq(given, Satisfies)

C1_Witness ==
    /\ op[1] = "filter_by_predicate"
    /\ pc = "returned"
    /\ Len(given) = 2
    /\ Len(heap[returned]) = 2
    /\ given[1] # given[2]

\* C2: None and "" are never passed to the predicate, whatever the predicate is,
\* and never appear in the returned list.
C2_NoAbsentOrEmpty ==
    /\ \A k \in 1..Len(calls) : calls[k] # None /\ calls[k] # <<>>
    /\ \A k \in 1..Len(evals) : evals[k][2] # None /\ evals[k][2] # <<>>
    /\ pc = "returned" =>
           \A k \in 1..Len(heap[returned]) :
               heap[returned][k] # None /\ heap[returned][k] # <<>>

\* The predicate is true of every string, the input holds None or "" next to a
\* real string, and only the real string was passed and returned.
C2_Witness ==
    /\ pc = "returned"
    /\ predicate = <<"is_shorter_than_4">>
    /\ Len(given) = 2
    /\ (given[1] = None \/ given[1] = <<>>)
    /\ Len(calls) = 1
    /\ heap[returned] = <<given[2]>>

\* The current call is a starting/ending-character filter whose character
\* argument is a string of length 0 or of length 2 or more.
BadCharacterCall ==
    /\ op[1] \in {"filter_by_starting_character", "filter_by_ending_character"}
    /\ op[2] # None
    /\ Len(op[2]) # 1

\* C3: a starting/ending-character filter called with a character of length 0 or
\* >= 2 ends in ValueError and filters nothing: no predicate is built, no
\* element is examined, no result list is created and none is returned.
C3_BadCharacterRaises ==
    BadCharacterCall
        => /\ pc = "raised"
           /\ exc = "ValueError"
           /\ predicate = NoPred
           /\ calls = <<>>
           /\ evals = <<>>
           /\ i = 0
           /\ result = 0
           /\ returned = 0
           /\ Len(heap) = 1

C3_Witness ==
    /\ BadCharacterCall
    /\ op[2] = <<"e", "b">>
    /\ pc = "raised"
    /\ Len(given) = 2
    /\ \A k \in 1..2 : NonEmptyString(given[k])

\* C3 also on the empty input list.
C3_WitnessEmptyInput == BadCharacterCall /\ op[2] = <<>> /\ given = <<>> /\ pc = "raised"

\* C4: combine_predicates_and(P, Q)(x) = P(x) and Q(x), combine_predicates_or(P, Q)(x)
\* = P(x) or Q(x), negate_predicate(P)(x) = not P(x) for boolean P, Q and every
\* string x; building a combinator evaluates no predicate.
C4_CombinatorLaws ==
    /\ pc = "built" => (evals = <<>> /\ calls = <<>> /\ verdict = "")
    /\ pc = "applied" =>
           LET x == calls[1]
               a == Call(op[2], x)
               b == Call(op[3], x)
           IN  /\ (op[1] = "combine_predicates_and" /\ IsBool(a) /\ IsBool(b))
                      => verdict = Bool(a = "True" /\ b = "True")
               /\ (op[1] = "combine_predicates_or" /\ IsBool(a) /\ IsBool(b))
                      => verdict = Bool(a = "True" \/ b = "True")
               /\ (op[1] = "negate_predicate" /\ IsBool(a))
                      => verdict = Bool(~(a = "True"))

\* An AND of two predicates that disagree on x was built and applied.
C4_Witness ==
    /\ pc = "applied"
    /\ op[1] = "combine_predicates_and"
    /\ Call(op[2], calls[1]) = "True"
    /\ Call(op[3], calls[1]) = "False"
    /\ verdict = "False"

\* The current call is a starting/ending-character filter with one character.
GoodCharacterCall ==
    /\ op[1] \in {"filter_by_starting_character", "filter_by_ending_character"}
    /\ op[2] # None
    /\ Len(op[2]) = 1

\* The element x matches the character of the current call at its first
\* (starting) or last (ending) position; case is folded by uppercasing both
\* sides unless the flag was passed as True.
CharMatches(x) ==
    /\ NonEmptyString(x)
    /\ LET c == op[2][1]
           d == IF op[1] = "filter_by_starting_character" THEN x[1] ELSE x[Len(x)]
       IN  IF op[3] = Some(TRUE) THEN d = c ELSE UpperChar(d) = UpperChar(c)

\* C5: with a single character c, the starting (ending) character filter returns,
\* in input order, exactly the non-empty strings whose first (last) character is c,
\* compared exactly when case_sensitive is True and uppercased on both sides when
\* it is False or omitted.
C5_CharacterFilter ==
    GoodCharacterCall
        => /\ pc \in {"loop", "returned"}
           /\ pc = "returned" => heap[returned] = SelectSeq(given, CharMatches)

\* The flag was omitted and a string was kept that only matches with case folded.
C5_Witness ==
    /\ GoodCharacterCall
    /\ op[1] = "filter_by_ending_character"
    /\ op[3] = Omitted
    /\ op[2] = <<"e">>
    /\ pc = "returned"
    /\ given = << <<"b", "E">>, <<"e", "b">> >>
    /\ heap[returned] = << <<"b", "E">> >>

\* The string x satisfies the bounds of the current filter_by_length call.
WithinBounds(x) ==
    /\ (op[2] = Omitted \/ Len(x) >= op[2][1])
    /\ (op[3] = Omitted \/ Len(x) <= op[3][1])

IsString(x) == x # None

StringWithinBounds(x) == IsString(x) /\ WithinBounds(x)

NonEmptyWithinBounds(x) == NonEmptyString(x) /\ WithinBounds(x)

\* C6 as stated: every string of S passes filter_by_length exactly when all supplied
\* (inclusive) bounds hold, so that with no bound every string passes.
C6_AsStated ==
    (op[1] = "filter_by_length" /\ pc = "returned")
        => heap[returned] = SelectSeq(given, StringWithinBounds)

\* C6 amended: a non-empty string of S passes filter_by_length exactly when all
\* supplied (inclusive) bounds hold; with no bound every non-empty string passes;
\* the empty string never passes.
C6_LengthFilter ==
    (op[1] = "filter_by_length" /\ Done)
        => /\ pc = "returned"
           /\ heap[returned] = SelectSeq(given, NonEmptyWithinBounds)

\* Both bounds supplied, one string on the minimum, one on the maximum, both kept.
C6_Witness ==
    /\ op = <<"filter_by_length", Some(1), Some(2)>>
    /\ pc = "returned"
    /\ given = << <<"e">>, <<"e", "b">> >>
    /\ heap[returned] = given

\* C7: filtering the result of a filter again with the same predicate returns the
\* same list.
C7_Idempotent ==
    (phase = "refilter" /\ Done)
        => /\ pc = "returned"
           /\ heap[returned] = first.value

\* A filter that dropped one of two elements was applied to its own result.
C7_Witness ==
    /\ phase = "refilter"
    /\ pc = "returned"
    /\ op[1] = "filter_by_predicate"
    /\ Len(heap[1]) = 2
    /\ Len(first.value) = 1
    /\ heap[returned] = first.value
    /\ returned # string_list

\* The predicate fails on some non-empty string of the input.
PredicateFails ==
    \E k \in 1..Len(given) : NonEmptyString(given[k]) /\ ~IsBool(Call(predicate, given[k]))

\* Position of the first non-empty string of the input on which the predicate fails.
FirstFailure ==
    CHOOSE k \in 1..Len(given) :
        /\ NonEmptyString(given[k]) /\ ~IsBool(Call(predicate, given[k]))
        /\ \A j \in 1..(k - 1) :
               NonEmptyString(given[j]) => IsBool(Call(predicate, given[j]))

\* C8: when the predicate fails on a non-empty element, the call ends in that
\* failure at the first such element: nothing is returned, and the predicate was
\* passed exactly the non-empty elements up to and including that one.
C8_FailurePropagates ==
    (predicate # NoPred /\ Done /\ PredicateFails)
        => /\ pc = "raised"
           /\ exc = Call(predicate, given[FirstFailure])
           /\ returned = 0
           /\ i = FirstFailure + 1
           /\ calls = SelectSeq(SubSeq(given, 1, FirstFailure), NonEmptyString)

\* The predicate accepted the first element and failed on the second: the partial
\* result exists inside the call and is not returned.
C8_Witness ==
    /\ pc = "raised"
    /\ exc = "IndexError"
    /\ Len(given) = 2
    /\ Len(calls) = 2
    /\ Len(heap[result]) = 1
    /\ returned = 0

\* The predicate failed on the first element and the second, a non-empty string,
\* was never passed to it.
C8_WitnessStopsEarly ==
    /\ pc = "raised"
    /\ exc = "IndexError"
    /\ Len(given) = 2
    /\ NonEmptyString(given[2])
    /\ calls = <<given[1]>>

\* Case-folded or exact containment, as the flag of the current call says.
ContainsTarget(x) ==
    IF op[3] = Some(TRUE) THEN StrIn(op[2], x) ELSE StrIn(Upper(op[2]), Upper(x))

StringContainsTarget(x) == IsString(x) /\ ContainsTarget(x)

NonEmptyContainsTarget(x) == NonEmptyString(x) /\ ContainsTarget(x)

\* C9 as stated: every string s of S passes filter_by_contains(S, t, flag) exactly
\* when s contains t (uppercased on both sides unless the flag is True).
C9_AsStated ==
    (op[1] = "filter_by_contains" /\ pc = "returned")
        => heap[returned] = SelectSeq(given, StringContainsTarget)

\* C9 amended: a non-empty string s of S passes filter_by_contains(S, t, flag)
\* exactly when s contains t as a contiguous substring (uppercased on both sides
\* unless the flag is True); the empty string never passes, also when t is empty;
\* the result keeps input order.
C9_ContainsFilter ==
    (op[1] = "filter_by_contains" /\ Done)
        => /\ pc = "returned"
           /\ heap[returned] = SelectSeq(given, NonEmptyContainsTarget)

\* "ee" is searched without regard to case: "eE" contains it, "ebe" holds both
\* letters but not next to each other.
C9_Witness ==
    /\ op = <<"filter_by_contains", <<"e", "e">>, Omitted>>
    /\ pc = "returned"
    /\ given = << <<"e", "b", "e">>, <<"e", "E">> >>
    /\ heap[returned] = << <<"e", "E">> >>

\* Every list that exists before a step, except the running call's own result
\* list, holds the same elements after it, and a result list is always new.
FrameStep ==
    /\ \A r \in 1..Len(heap) : r # result' => heap'[r] = heap[r]
    /\ result' # result => result' = Len(heap) + 1
    /\ Len(heap') >= Len(heap)

\* C10: a filter call never changes its input list, also when it ends in an error;
\* its result is a list of its own; the same call on the same input gives the
\* same outcome again.
C10_NoSideEffect ==
    /\ [][FrameStep]_vars
    /\ [](/\ heap[string_list] = given
          /\ result # string_list
          /\ (phase = "repeat" /\ Done) => Outcome = first)

\* The same call was made twice on a list of two strings and ended both times in
\* the predicate's error, after one element had been appended to its own result.
C10_Witness ==
    /\ phase = "repeat"
    /\ pc = "raised"
    /\ exc = "IndexError"
    /\ first.pc = "raised"
    /\ Len(heap[result]) = 1
    /\ Len(heap[string_list]) = 2
    /\ Len(heap) = 3

\* The same call was made twice and returned two equal, distinct lists.
C10_WitnessReturned ==
    /\ phase = "repeat"
    /\ pc = "returned"
    /\ Len(heap[returned]) = 1
    /\ Len(heap[string_list]) = 2
    /\ returned = 3

====
